---- MODULE Spec2Model ----
\* A model of archy (src/archy/runner.py): ArchiveRunner.run(), the single-pass
\* pipeline _archive_files_for_group, the ownership policy _should_archive, and
\* the two inter-process locks (the per-group process lock and the per-file lock).
\* Each process is one invocation of run(); processes interleave at the calls
\* that touch the shared file system (lock files, candidate files, the archive).
EXTENDS Integers, Sequences, FiniteSets

\* ---------------------------------------------------------------- bounds
NumProcs == 2
NumFiles == 2
\* Runs are repeated while no archive holds this many entries of one file.
MaxEntries == 2

Procs == 1..NumProcs
Files == 1..NumFiles

\* ------------------------------------------------------- the environment
\* User names file owners can have, and the names file group-owners can have.
Users == {"user1", "some_user"}
GroupNames == {"staff", "devs"}
FileGroups == GroupNames \cup Users \cup {"some_group"}

\* The system group database read by grp.getgrnam: (name, passwd, gid, members).
GroupDb(name) ==
    IF name = "staff" THEN <<"staff", "x", 1500, {"user1"}>>
    ELSE <<"devs", "x", 1501, {"user1", "some_user"}>>

\* Group(id, name, members) built from a grp.struct_group-like tuple.
linux_group_to_archy_group(linux_group) ==
    [id |-> linux_group[3], name |-> linux_group[1], members |-> linux_group[4]]

NoGroup == [id |-> -1, name |-> "", members |-> {}]
NoCand == [is_file |-> FALSE, owner |-> "", group |-> ""]

\* What fl.is_file(), fl.owner() and fl.group() can answer for one entry.
Candidates == [is_file : BOOLEAN, owner : Users, group : FileGroups]

\* ------------------------------------------------------------ path names
\* A path template is a sequence of tokens. "%s" is the placeholder, "%d" a
\* conversion that wants a number, "%%" an escaped percent sign, "%" a percent
\* sign that starts no conversion; every other token is literal text.
LOCKFILE_BASE == <<"/var/run/archy-", "%s", ".lock">>
LOGFILE_BASE == <<"/var/log/archy.", "%s", ".log">>
TARFILE_BASE == <<"/tmp/archy-", "%s", ".tar">>

Placeholders(template) == {i \in DOMAIN template : template[i] = "%s"}

\* Where template % name fails, reading left to right with the one string
\* argument: at a "%" that starts no conversion (ValueError), at a "%d"
\* (TypeError: a number is required), at a "%s" after the argument has been
\* used (TypeError: not enough arguments).
FormatErrors(template) ==
    {i \in DOMAIN template :
        \/ template[i] \in {"%", "%d"}
        \/ /\ template[i] = "%s"
           /\ \E j \in 1..(i - 1) : template[j] = "%s"}

\* template % name: err is "" and val the result, or err names the exception.
\* An argument that no conversion used is a TypeError (not all arguments
\* converted during string formatting).
PercentFormat(template, name) ==
    LET errors == FormatErrors(template)
    IN  IF errors # {}
        THEN LET first == CHOOSE i \in errors : \A j \in errors : i <= j
             IN  [err |-> IF template[first] = "%" THEN "ValueError" ELSE "TypeError",
                  val |-> template]
        ELSE IF Placeholders(template) = {}
        THEN [err |-> "TypeError", val |-> template]
        ELSE [err |-> "",
              val |-> [i \in DOMAIN template |->
                         IF template[i] = "%s" THEN name
                         ELSE IF template[i] = "%%" THEN "%"
                         ELSE template[i]]]

\* Variant: the group name is not put into the path.
get_lockfile_name_unkeyed(base, name) == [raised |-> FALSE, val |-> base]

\* try: return self.lockfile_base % self.group_name; except TypeError: return
\* self.lockfile_base. Any other exception leaves the method.
get_lockfile_name(base, name) ==
    LET r == PercentFormat(base, name)
    IN  IF r.err = "TypeError" THEN [raised |-> FALSE, val |-> base]
        ELSE [raised |-> r.err # "", val |-> r.val]

get_logfile_name(base, name) ==
    LET r == PercentFormat(base, name)
    IN  IF r.err = "TypeError" THEN [raised |-> FALSE, val |-> base]
        ELSE [raised |-> r.err # "", val |-> r.val]

get_tarfile_name(base, name) ==
    LET r == PercentFormat(base, name)
    IN  IF r.err = "TypeError" THEN [raised |-> FALSE, val |-> base]
        ELSE [raised |-> r.err # "", val |-> r.val]

\* The lock-file templates a runner is built with: the default, one of the
\* caller's with the placeholder, one of the caller's without it.
LockTemplates == {LOCKFILE_BASE, <<"foo-", "%s", "-bar.lock">>, <<"foo-bar.lock">>}

LockPaths == {get_lockfile_name(b, g).val : b \in LockTemplates, g \in GroupNames}
TarPaths == {get_tarfile_name(TARFILE_BASE, g).val : g \in GroupNames}
LogPaths == {get_logfile_name(LOGFILE_BASE, g).val : g \in GroupNames}

\* What a traversal entry is: a file like any other, or a file at one of the
\* paths the runners themselves work with. rglob('*') yields whatever is under
\* base_dir, its own archive, lock file and log file included when base_dir is
\* /tmp, /var/run or /var/log (or a directory above them).
OrdinaryFile == <<"file">>
Entries == {OrdinaryFile} \cup TarPaths \cup LogPaths
               \cup {get_lockfile_name(LOCKFILE_BASE, g).val : g \in GroupNames}

\* ------------------------------------------------------------ the policy
\* Variant: a member's file qualifies whatever its group-owner is.
should_archive_any_group(fl, grp) ==
    fl.is_file /\ (fl.group = grp.name \/ fl.owner \in grp.members)

\* Variant: the kind of the entry is not looked at.
should_archive_any_kind(fl, grp) ==
    fl.group = grp.name \/ (fl.owner \in grp.members /\ fl.owner = fl.group)

\* Variant: the two tests on the owner are joined by "or".
should_archive_member_or_own(fl, grp) ==
    fl.is_file /\ (fl.group = grp.name \/ fl.owner \in grp.members \/ fl.owner = fl.group)

should_archive(fl, grp) ==
    LET grp_name == fl.group
        user_name == fl.owner
        is_file == fl.is_file
        is_group_file == grp_name = grp.name
        is_user_file == user_name \in grp.members /\ user_name = grp_name
    IN  is_file /\ (is_group_file \/ is_user_file)

current_user_has_permissions(user) == user = "root"

\* ----------------------------------------------------------------- state
VARIABLES
    pc,                  \* where each invocation of run() stands
    force_archive,       \* self.force_archive
    group_name,          \* self.group_name
    lockfile_base,       \* self.lockfile_base
    lock,                \* self.lock: "None", or a handle "unacquired" / "acquired"
    group,               \* run()'s local group
    run_count,           \* run()'s local archived_file_count (-1 before the pipeline)
    idx,                 \* position of the traversal linux_files
    cand,                \* what the policy saw of the current candidate
    file_lock,           \* the pipeline's local file_lock: {f} for a handle on f, {} for None
    exc,                 \* an exception is in flight in the append/delete unit
    archived_file_count, \* the pipeline's local counter
    not_transferred,     \* the pipeline's local counter
    exit_msg,            \* the message of the SystemExit raised, or "" for none
    log,                 \* the records this invocation has put on the console
    plock,               \* per process lock file, the set of invocations holding it
    flock,               \* per candidate file, the set of invocations holding its lock
    on_disk,             \* the files present under base_dir
    archive,             \* per archive path, how many entries each file has
    tar_open,            \* the invocation has the archive open
    appended,            \* history: the files each invocation appended
    deleted,             \* history: the files each invocation deleted
    obtained,            \* history: the file locks each invocation obtained
    released,            \* history: how often each invocation released each file lock
    plock_releases,      \* history: how often each invocation released a held process lock
    examined,            \* history: how often each invocation examined each file
    rejected,            \* history: the files the policy rejected for each invocation
    gates,               \* history: the gates of run() each invocation evaluated, in order
    pol_fl, pol_group,   \* the policy evaluated on its own: its two arguments
    pol_out,             \* and what it returned: <<>> before the call, <<result>> after
    path_args,           \* a path-name method called on its own: method, template, group name
    path_out,            \* and its outcome: <<>> before the call, <<outcome>> after
    entry_path           \* per traversal entry, OrdinaryFile or the path it lies at

runVars == <<pc, force_archive, group_name, lockfile_base, lock, group, run_count, exit_msg, log>>
pipeVars == <<idx, cand, file_lock, exc, archived_file_count, not_transferred, tar_open>>
worldVars == <<plock, flock, on_disk, archive>>
histVars == <<appended, deleted, obtained, released, plock_releases, examined, rejected, gates>>
polVars == <<pol_fl, pol_group, pol_out, path_args, path_out>>
vars == <<runVars, pipeVars, worldVars, histVars, polVars, entry_path>>

\* ------------------------------------------------------------------ logging
\* _log: every record gets level, group, dirname and destination_tar from
\* _get_log_extra, added to the caller's own keys.
BaseDir == "/base"

\* Variant: only the level is added to the caller's keys.
get_log_extra_level_only(p, extra_keys, level) ==
    [level |-> level, keys |-> extra_keys, group |-> "",
     dirname |-> "", destination_tar |-> <<>>]

get_log_extra(p, extra_keys, level) ==
    [level |-> level, keys |-> extra_keys, group |-> group_name[p],
     dirname |-> BaseDir, destination_tar |-> get_tarfile_name(TARFILE_BASE, group_name[p]).val]

LogRecord(p, level, msg, extra_keys) ==
    [msg |-> msg, extra |-> get_log_extra(p, extra_keys, level)]

log_debug(p, msg, keys) == LogRecord(p, "DEBUG", msg, keys)
log_info(p, msg, keys) == LogRecord(p, "INFO", msg, keys)
log_error(p, msg, keys) == LogRecord(p, "ERROR", msg, keys)

\* The console handler is set to INFO: log holds what it prints.
ConsoleLevels == {"INFO", "ERROR", "CRITICAL"}

Logged(p, recs) ==
    log' = [log EXCEPT ![p] = @ \cup {r \in recs : r.extra.level \in ConsoleLevels}]

\* ------------------------------------------------------------------ messages
MsgNotRoot == "[ERROR] Please run archy as root"
MsgRootDir == "[ERROR] Archy is not safe to run from the root directory. Please specify --base-dir"
MsgInvalidDir == "[ERROR] Invalid directory"
MsgInvalidGroup == "[ERROR] Invalid group name"
MsgLockContention == "[ERROR] Another archy process is already running for this group. Wait for it to finish, or use --force to run anyhow."

\* sys.exit(msg): SystemExit leaves run() at once.
SysExit(p, msg) ==
    /\ pc' = [pc EXCEPT ![p] = "exited"]
    /\ exit_msg' = [exit_msg EXCEPT ![p] = msg]

Goto(p, where) == pc' = [pc EXCEPT ![p] = where]

\* Variant: the directory is looked for before the root check.
after_gate_exists_first(gate) ==
    CASE gate = "caller_privilege" -> "check_dir"
      [] gate = "target_exists" -> "check_root"
      [] gate = "target_not_root" -> "get_group"
      [] gate = "resolve_group" -> "acquire"
      [] gate = "acquire_process_lock" -> "begin"

\* run() evaluates its gates top to bottom: where a passed gate hands over.
after_gate(gate) ==
    CASE gate = "caller_privilege" -> "check_root"
      [] gate = "target_not_root" -> "check_dir"
      [] gate = "target_exists" -> "get_group"
      [] gate = "resolve_group" -> "acquire"
      [] gate = "acquire_process_lock" -> "begin"

Evaluated(p, gate) == gates' = [gates EXCEPT ![p] = Append(@, gate)]

\* --------------------------------------------------------------------- Init
PolicyIdle ==
    /\ pol_fl = NoCand
    /\ pol_group = NoGroup
    /\ pol_out = <<>>

NoPathArgs == [method |-> "", base |-> <<>>, name |-> ""]

PathIdle ==
    /\ path_args = NoPathArgs
    /\ path_out = <<>>

\* The invocations are interchangeable: they are numbered with the forced ones
\* last and, among equals, those for "staff" first.
Sorted(force, name) ==
    \A p \in Procs : p + 1 \in Procs =>
        /\ force[p] => force[p + 1]
        /\ (force[p] = force[p + 1] /\ name[p] = "devs") => name[p + 1] = "devs"

InitRunOn(templates, entries) ==
    /\ pc = [p \in Procs |-> "start"]
    /\ lockfile_base \in [Procs -> templates]
    /\ entry_path \in entries
    /\ force_archive \in [Procs -> BOOLEAN]
    /\ group_name \in [Procs -> GroupNames]
    /\ Sorted(force_archive, group_name)
    /\ gates = [p \in Procs |-> <<>>]
    /\ lock = [p \in Procs |-> "None"]
    /\ group = [p \in Procs |-> NoGroup]
    /\ run_count = [p \in Procs |-> -1]
    /\ idx = [p \in Procs |-> 1]
    /\ cand = [p \in Procs |-> NoCand]
    /\ file_lock = [p \in Procs |-> {}]
    /\ exc = [p \in Procs |-> FALSE]
    /\ archived_file_count = [p \in Procs |-> 0]
    /\ not_transferred = [p \in Procs |-> 0]
    /\ exit_msg = [p \in Procs |-> ""]
    /\ log = [p \in Procs |-> {}]
    /\ plock = [path \in LockPaths |-> {}]
    /\ flock = [f \in Files |-> {}]
    /\ archive = [t \in TarPaths |-> [f \in Files |-> 0]]
    /\ tar_open = [p \in Procs |-> FALSE]
    /\ appended = [p \in Procs |-> {}]
    /\ deleted = [p \in Procs |-> {}]
    /\ obtained = [p \in Procs |-> {}]
    /\ released = [p \in Procs |-> [f \in Files |-> 0]]
    /\ plock_releases = [p \in Procs |-> 0]
    /\ examined = [p \in Procs |-> [f \in Files |-> 0]]
    /\ rejected = [p \in Procs |-> {}]
    /\ PolicyIdle
    /\ PathIdle

\* base_dir holds ordinary files only.
OrdinaryEntries == [f \in Files |-> OrdinaryFile]

InitRunWith(templates) == InitRunOn(templates, {OrdinaryEntries})

\* The runners are built as main() builds them, with the default templates.
InitRun == InitRunWith({LOCKFILE_BASE})

\* Every file of base_dir is there when the invocations start.
Init == InitRun /\ on_disk = Files

\* base_dir holds any of the files.
InitAnyDisk == InitRun /\ on_disk \in SUBSET Files

\* -------------------------------------------------------------- run(): gates
\* user = self._get_current_user(); not root: sys.exit.
CheckCallerPrivilege(p) ==
    /\ pc[p] = "start"
    /\ \E user \in {"root"} \cup Users :
          IF current_user_has_permissions(user)
          THEN Goto(p, after_gate("caller_privilege")) /\ UNCHANGED exit_msg
          ELSE SysExit(p, MsgNotRoot)
    /\ UNCHANGED <<force_archive, group_name, lockfile_base, lock, group, run_count, log>>
    /\ UNCHANGED <<pipeVars, worldVars, polVars, entry_path>>
    /\ Evaluated(p, "caller_privilege")
    /\ UNCHANGED <<appended, deleted, obtained, released, plock_releases, examined, rejected>>

\* if self._is_root_directory(): sys.exit.
CheckTargetNotRoot(p) ==
    /\ pc[p] = "check_root"
    /\ \E is_root_directory \in BOOLEAN :
          IF is_root_directory
          THEN SysExit(p, MsgRootDir)
          ELSE Goto(p, after_gate("target_not_root")) /\ UNCHANGED exit_msg
    /\ UNCHANGED <<force_archive, group_name, lockfile_base, lock, group, run_count, log>>
    /\ UNCHANGED <<pipeVars, worldVars, polVars, entry_path>>
    /\ Evaluated(p, "target_not_root")
    /\ UNCHANGED <<appended, deleted, obtained, released, plock_releases, examined, rejected>>

\* if not self._directory_exists(): sys.exit.
CheckTargetExists(p) ==
    /\ pc[p] = "check_dir"
    /\ \E directory_exists \in BOOLEAN :
          IF ~directory_exists
          THEN SysExit(p, MsgInvalidDir)
          ELSE Goto(p, after_gate("target_exists")) /\ UNCHANGED exit_msg
    /\ UNCHANGED <<force_archive, group_name, lockfile_base, lock, group, run_count, log>>
    /\ UNCHANGED <<pipeVars, worldVars, polVars, entry_path>>
    /\ Evaluated(p, "target_exists")
    /\ UNCHANGED <<appended, deleted, obtained, released, plock_releases, examined, rejected>>

\* _get_group: grp.getgrnam finds the group, or raises KeyError (None).
get_group(p, found) ==
    IF found THEN linux_group_to_archy_group(GroupDb(group_name[p])) ELSE NoGroup

\* group = self._get_group(); if not group: sys.exit.
ResolveGroup(p) ==
    /\ pc[p] = "get_group"
    /\ \E found \in BOOLEAN :
          LET g == get_group(p, found)
          IN  IF g = NoGroup
              THEN SysExit(p, MsgInvalidGroup) /\ UNCHANGED group
              ELSE /\ Goto(p, after_gate("resolve_group"))
                   /\ group' = [group EXCEPT ![p] = g]
                   /\ UNCHANGED exit_msg
    /\ UNCHANGED <<force_archive, group_name, lockfile_base, lock, run_count, log>>
    /\ UNCHANGED <<pipeVars, worldVars, polVars, entry_path>>
    /\ Evaluated(p, "resolve_group")
    /\ UNCHANGED <<appended, deleted, obtained, released, plock_releases, examined, rejected>>

\* Variant: the answer of acquire() is not looked at.
acquire_process_lock_unchecked(p) ==
    IF force_archive[p]
    THEN [result |-> TRUE, lock |-> lock[p], plock |-> plock]
    ELSE [result |-> TRUE, lock |-> "acquired",
          plock |-> [plock EXCEPT ![get_lockfile_name(lockfile_base[p], group_name[p]).val] = @ \cup {p}]]

\* Variant: force_archive is not looked at.
acquire_process_lock_force_ignored(p) ==
    LET path == get_lockfile_name(lockfile_base[p], group_name[p]).val
    IN  IF plock[path] = {}
        THEN [result |-> TRUE, lock |-> "acquired",
              plock |-> [plock EXCEPT ![path] = {p}]]
        ELSE [result |-> FALSE, lock |-> "unacquired", plock |-> plock]

\* _acquire_process_lock: force mode answers True and makes no handle; otherwise
\* a handle on the group's lock file, acquired without blocking.
acquire_process_lock(p) ==
    IF force_archive[p]
    THEN [result |-> TRUE, lock |-> lock[p], plock |-> plock]
    ELSE LET path == get_lockfile_name(lockfile_base[p], group_name[p]).val
         IN  IF plock[path] = {}
             THEN [result |-> TRUE, lock |-> "acquired",
                   plock |-> [plock EXCEPT ![path] = {p}]]
             ELSE [result |-> FALSE, lock |-> "unacquired", plock |-> plock]

\* if not self._acquire_process_lock(): sys.exit.
AcquireProcessLock(p) ==
    /\ pc[p] = "acquire"
    /\ LET r == acquire_process_lock(p)
       IN  /\ lock' = [lock EXCEPT ![p] = r.lock]
           /\ plock' = r.plock
           /\ IF r.result
              THEN Goto(p, after_gate("acquire_process_lock")) /\ UNCHANGED exit_msg
              ELSE SysExit(p, MsgLockContention)
    /\ UNCHANGED <<force_archive, group_name, lockfile_base, group, run_count, log>>
    /\ UNCHANGED <<pipeVars, flock, on_disk, archive, polVars, entry_path>>
    /\ Evaluated(p, "acquire_process_lock")
    /\ UNCHANGED <<appended, deleted, obtained, released, plock_releases, examined, rejected>>

\* self._log_info('Beginning archive'); archived_file_count = -1. The logger is
\* built on this first use; opening its log file can raise, and that exception
\* leaves run() before the try block.
BeginArchive(p) ==
    /\ pc[p] = "begin"
    /\ \E logger_ok \in BOOLEAN :
          IF logger_ok
          THEN /\ Logged(p, {log_info(p, "Beginning archive", {})})
               /\ run_count' = [run_count EXCEPT ![p] = -1]
               /\ Goto(p, "open")
          ELSE /\ Goto(p, "raised")
               /\ UNCHANGED <<log, run_count>>
    /\ UNCHANGED <<force_archive, group_name, lockfile_base, lock, group, exit_msg>>
    /\ UNCHANGED <<pipeVars, worldVars, histVars, polVars, entry_path>>

\* ------------------------------------------- _archive_files_for_group
Bump(counter, p) == [counter EXCEPT ![p] = @ + 1]

\* Variant: the entry just dealt with is taken up again.
next_entry_again(i) == i

\* for fl in linux_files: the generator hands out its next entry.
next_entry(i) == i + 1

NextCandidate(p) ==
    /\ idx' = [idx EXCEPT ![p] = next_entry(@)]
    /\ cand' = [cand EXCEPT ![p] = NoCand]
    /\ Goto(p, "loop")

\* Variant: run() has no except clause around the pipeline.
pipeline_raised_propagates == "raised"

\* Where an exception that leaves _archive_files_for_group lands in run():
\* except Exception.
pipeline_raised == "unrecoverable"

\* Variant: the policy's answer is not looked at.
after_policy_ignored(accepted) == "getlock"

\* Variant: the test is negated.
after_policy_inverted(accepted) == IF accepted THEN "loop" ELSE "getlock"

\* if self._should_archive(fl, group): on to the file lock; otherwise the
\* elif branch, and the next candidate.
after_policy(accepted) == IF accepted THEN "getlock" ELSE "loop"

\* Variant: the continue after a missing handle is lost.
after_getlock_no_continue(handle) == "archive"

\* if not file_lock: ... continue; otherwise on to the append/delete unit.
after_getlock(handle) == IF handle = {} THEN "loop" ELSE "archive"

\* Variant: a failed append is swallowed and the delete goes ahead.
after_archive_swallowed(raised) == "delete"

\* try: archive; delete; count -- an exception skips the rest of the try block
\* and goes to the finally clause.
after_archive(raised) == IF raised THEN "release" ELSE "delete"

\* Variant: no per-candidate except clause, the exception leaves the pipeline.
after_unit_uncaught(raised) == IF raised THEN "unrecoverable" ELSE "loop"

\* After the finally clause an exception in flight is caught by the candidate's
\* own except Exception; either way the for loop goes on.
after_unit(raised) == "loop"

\* Variant: the handler logs the failure but does not count the candidate.
count_failed_lost(n) == n

\* except Exception as ex: not_transferred += 1.
count_failed(n) == n + 1

\* Variant: the release sits at the end of the try block, not in a finally clause.
release_filelock_on_success(p, f, raised) ==
    IF raised THEN flock ELSE [flock EXCEPT ![f] = @ \ {p}]

\* self._release_filelock(file_lock) in the finally clause: on every path.
release_filelock(p, f, raised) == [flock EXCEPT ![f] = @ \ {p}]

\* Variant: the archive is opened in write mode, which empties it.
open_archive_truncating(tar) == [archive EXCEPT ![tar] = [f \in Files |-> 0]]

\* _open_archive: tarfile.open(tarfile_name, 'a') keeps the entries the archive has.
open_archive(tar) == archive

\* linux_files = self._get_files(); both counters 0;
\* with self._open_archive(tarfile_name) as tar: tarfile.open(name, 'a') can raise,
\* and that exception leaves the pipeline.
OpenArchive(p) ==
    /\ pc[p] = "open"
    /\ idx' = [idx EXCEPT ![p] = 1]
    /\ archived_file_count' = [archived_file_count EXCEPT ![p] = 0]
    /\ not_transferred' = [not_transferred EXCEPT ![p] = 0]
    /\ \E opened \in BOOLEAN :
          IF opened
          THEN /\ tar_open' = [tar_open EXCEPT ![p] = TRUE]
               /\ archive' = open_archive(get_tarfile_name(TARFILE_BASE, group_name[p]).val)
               /\ Goto(p, "loop")
          ELSE UNCHANGED <<tar_open, archive>> /\ Goto(p, pipeline_raised)
    /\ UNCHANGED <<force_archive, group_name, lockfile_base, lock, group, run_count, exit_msg, log>>
    /\ UNCHANGED <<cand, file_lock, exc, plock, flock, on_disk, histVars, polVars, entry_path>>

\* The candidate the policy accepts: on to the file lock.
ExamineEligible(p, c) ==
    /\ cand' = [cand EXCEPT ![p] = c]
    /\ Logged(p, {log_debug(p, "Acquiring file lock to transfer file", {"file_name"})})
    /\ Goto(p, "getlock")
    /\ UNCHANGED <<idx, not_transferred>>

\* The candidate the policy rejects: a debug record if it is a regular file.
ExamineRejected(p, c) ==
    /\ Logged(p, IF c.is_file
                 THEN {log_debug(p, "Not archiving file. Wrong ownership", {"file_name"})}
                 ELSE {})
    /\ NextCandidate(p)
    /\ UNCHANGED not_transferred

\* The policy raised (owner(), group() on a vanished entry or an unknown id):
\* except Exception counts the candidate as not transferred.
ExamineRaised(p) ==
    /\ not_transferred' = [not_transferred EXCEPT ![p] = count_failed(@)]
    /\ UNCHANGED rejected
    /\ Logged(p, {log_error(p, "Unable to transfer file", {"file_name", "error"})})
    /\ NextCandidate(p)

\* An exception between the for statement and the try block is not caught for
\* the candidate: it leaves the with block, which closes the archive, and the
\* pipeline.
LeavePipeline(p) ==
    /\ tar_open' = [tar_open EXCEPT ![p] = FALSE]
    /\ Goto(p, pipeline_raised)
    /\ UNCHANGED <<idx, cand, not_transferred, log, rejected>>

\* for fl in linux_files: the traversal raises while it looks for its next entry
\* (rglob reads the directories as it goes).
TraversalRaised(p) == LeavePipeline(p) /\ UNCHANGED examined

\* filename = self._get_filename(fl) raises, before the try block.
GetFilenameRaised(p) == LeavePipeline(p)

\* for fl in linux_files: filename = self._get_filename(fl); try: if
\* self._should_archive(fl, group): ...
\* An entry gone from the disk is either not produced by the traversal at all,
\* or produced and then fails in the policy.
Examine(p) ==
    /\ pc[p] = "loop"
    /\ idx[p] \in Files
    /\ LET f == idx[p]
       IN  \/ /\ f \notin on_disk
              /\ NextCandidate(p)
              /\ UNCHANGED <<not_transferred, log, examined, rejected, tar_open>>
           \/ TraversalRaised(p)
           \/ /\ examined' = [examined EXCEPT ![p][f] = @ + 1]
              /\ \/ GetFilenameRaised(p)
                 \/ /\ f \in on_disk
                    /\ UNCHANGED tar_open
                    /\ \E c \in Candidates :
                          LET accepted == should_archive(c, group[p])
                          IN  /\ rejected' = IF accepted
                                             THEN rejected
                                             ELSE [rejected EXCEPT ![p] = @ \cup {f}]
                              /\ IF after_policy(accepted) = "getlock"
                                 THEN ExamineEligible(p, c)
                                 ELSE ExamineRejected(p, c)
                 \/ ExamineRaised(p) /\ UNCHANGED tar_open
    /\ UNCHANGED <<force_archive, group_name, lockfile_base, lock, group, run_count, exit_msg>>
    /\ UNCHANGED <<file_lock, exc, archived_file_count, worldVars, polVars, entry_path>>
    /\ UNCHANGED <<appended, deleted, obtained, released, plock_releases, gates>>

\* _get_filelock: InterProcessLock(filename).acquire(blocking=True, timeout=5).
\* The handle is returned when the lock is free (opening the lock file in append
\* mode puts the file on disk); None when the wait times out, which can happen
\* whoever holds the lock, another invocation or any other program.
get_filelock(p, f, timed_out) ==
    IF ~timed_out /\ flock[f] = {}
    THEN [handle |-> {f}, flock |-> [flock EXCEPT ![f] = {p}],
          on_disk |-> on_disk \cup {f}]
    ELSE [handle |-> {}, flock |-> flock, on_disk |-> on_disk]

\* file_lock = self._get_filelock(filename); if not file_lock: count, log, continue.
GetFilelock(p) ==
    /\ pc[p] = "getlock"
    /\ \E timed_out \in BOOLEAN :
          /\ timed_out \/ flock[idx[p]] = {}
          /\ LET r == get_filelock(p, idx[p], timed_out)
             IN  /\ file_lock' = [file_lock EXCEPT ![p] = r.handle]
                 /\ flock' = r.flock
                 /\ on_disk' = r.on_disk
                 /\ obtained' = [obtained EXCEPT ![p] = @ \cup r.handle]
                 /\ IF r.handle = {}
                    THEN /\ not_transferred' = Bump(not_transferred, p)
                         /\ Logged(p, {log_error(p, "Unable to transfer file. File in use",
                                                 {"file_name"})})
                    ELSE UNCHANGED <<not_transferred, log>>
                 /\ IF after_getlock(r.handle) = "loop"
                    THEN NextCandidate(p)
                    ELSE Goto(p, after_getlock(r.handle)) /\ UNCHANGED <<idx, cand>>
    /\ UNCHANGED <<force_archive, group_name, lockfile_base, lock, group, run_count, exit_msg>>
    /\ UNCHANGED <<exc, archived_file_count, tar_open, plock, archive, polVars, entry_path>>
    /\ UNCHANGED <<appended, deleted, released, plock_releases, examined, rejected, gates>>

\* self._archive_file(filename, tar): tar.add appends one entry, or raises
\* (it must raise when the file is gone).
\* tar.add(filename) on the archive opened at the path tar. tarfile skips the
\* file of the archive itself; and an archive whose file was unlinked since it
\* was opened is written to all the same, but its path no longer leads to it.
tar_add(tar, f) ==
    IF entry_path[f] = tar \/ \E g \in Files \ on_disk : entry_path[g] = tar
    THEN archive
    ELSE [archive EXCEPT ![tar][f] = @ + 1]

ArchiveFile(p) ==
    /\ pc[p] = "archive"
    /\ Logged(p, {log_debug(p, "Archiving file", {"file_name"})})
    /\ LET f == idx[p]
           tar == get_tarfile_name(TARFILE_BASE, group_name[p]).val
       IN  \/ /\ f \in on_disk
              /\ archive' = tar_add(tar, f)
              /\ appended' = IF entry_path[f] = tar
                             THEN appended
                             ELSE [appended EXCEPT ![p] = @ \cup {f}]
              /\ Goto(p, after_archive(FALSE))
              /\ UNCHANGED exc
           \/ /\ exc' = [exc EXCEPT ![p] = TRUE]
              /\ Goto(p, after_archive(TRUE))
              /\ UNCHANGED <<archive, appended>>
    /\ UNCHANGED <<force_archive, group_name, lockfile_base, lock, group, run_count, exit_msg>>
    /\ UNCHANGED <<idx, cand, file_lock, archived_file_count, not_transferred, tar_open>>
    /\ UNCHANGED <<plock, flock, on_disk, polVars, entry_path>>
    /\ UNCHANGED <<deleted, obtained, released, plock_releases, examined, rejected, gates>>

\* Variant: the count is incremented before the delete is tried.
count_archived_before_delete(n, unlinked) == n + 1

\* self._delete_file(fl) and then archived_file_count += 1: an unlink that
\* raises skips the increment.
count_archived(n, unlinked) == IF unlinked THEN n + 1 ELSE n

\* filepath.unlink(): the entry is gone from base_dir, and an archive that lay
\* at its path is gone with it.
unlink(f) ==
    IF entry_path[f] \in TarPaths
    THEN [archive EXCEPT ![entry_path[f]] = [g \in Files |-> 0]]
    ELSE archive

\* self._delete_file(fl); archived_file_count += 1; 'File successfully archived'.
\* unlink raises when the file is gone, and can raise otherwise.
DeleteFile(p) ==
    /\ pc[p] = "delete"
    /\ LET f == idx[p]
       IN  \/ /\ f \in on_disk
              /\ on_disk' = on_disk \ {f}
              /\ archive' = unlink(f)
              /\ deleted' = [deleted EXCEPT ![p] = @ \cup {f}]
              /\ archived_file_count' =
                    [archived_file_count EXCEPT ![p] = count_archived(@, TRUE)]
              /\ Logged(p, {log_debug(p, "Deleting file", {"file_name"}),
                            log_info(p, "File successfully archived", {"file_name"})})
              /\ UNCHANGED exc
           \/ /\ exc' = [exc EXCEPT ![p] = TRUE]
              /\ Logged(p, {log_debug(p, "Deleting file", {"file_name"})})
              /\ archived_file_count' =
                    [archived_file_count EXCEPT ![p] = count_archived(@, FALSE)]
              /\ UNCHANGED <<on_disk, archive, deleted>>
    /\ Goto(p, "release")
    /\ UNCHANGED <<force_archive, group_name, lockfile_base, lock, group, run_count, exit_msg>>
    /\ UNCHANGED <<idx, cand, file_lock, not_transferred, tar_open>>
    /\ UNCHANGED <<plock, flock, polVars, entry_path>>
    /\ UNCHANGED <<appended, obtained, released, plock_releases, examined, rejected, gates>>

\* finally: self._release_filelock(file_lock); then, with an exception in flight,
\* the handler of except Exception: count, log; on to the next candidate.
ReleaseFilelock(p) ==
    /\ pc[p] = "release"
    /\ LET f == idx[p]
           after == release_filelock(p, f, exc[p])
       IN  /\ flock' = after
           /\ released' = IF after # flock
                          THEN [released EXCEPT ![p][f] = @ + 1]
                          ELSE released
    /\ file_lock' = [file_lock EXCEPT ![p] = {}]
    /\ IF exc[p]
       THEN /\ not_transferred' = [not_transferred EXCEPT ![p] = count_failed(@)]
            /\ Logged(p, {log_error(p, "Unable to transfer file", {"file_name", "error"})})
       ELSE UNCHANGED <<not_transferred, log>>
    /\ exc' = [exc EXCEPT ![p] = FALSE]
    /\ IF after_unit(exc[p]) = "loop"
       THEN NextCandidate(p) /\ UNCHANGED tar_open
       ELSE /\ Goto(p, after_unit(exc[p]))
            /\ tar_open' = [tar_open EXCEPT ![p] = FALSE]
            /\ UNCHANGED <<idx, cand>>
    /\ UNCHANGED <<force_archive, group_name, lockfile_base, lock, group, run_count, exit_msg>>
    /\ UNCHANGED <<archived_file_count, plock, on_disk, archive, polVars, entry_path>>
    /\ UNCHANGED <<appended, deleted, obtained, plock_releases, examined, rejected, gates>>

\* Variant: the second test is an elif of the first.
SummaryRecords_exclusive(p) ==
    IF not_transferred[p] # 0
    THEN {log_error(p, "Some files were not transferred. Please fix problems, and rerun this script",
                    {"not_transferred_count"})}
    ELSE IF archived_file_count[p] = 0
         THEN {log_error(p, "No files transferred to archive. You may want to manually delete %s if it is empty",
                         {})}
         ELSE {}

\* The two summary records the pipeline logs after the traversal.
SummaryRecords(p) ==
    (IF not_transferred[p] # 0
     THEN {log_error(p, "Some files were not transferred. Please fix problems, and rerun this script",
                     {"not_transferred_count"})}
     ELSE {})
    \cup
    (IF archived_file_count[p] = 0
     THEN {log_error(p, "No files transferred to archive. You may want to manually delete %s if it is empty",
                     {})}
     ELSE {})

\* The traversal is exhausted: the archive is closed, the summary is logged, and
\* the pipeline returns archived_file_count to run().
EndTraversal(p) ==
    /\ pc[p] = "loop"
    /\ idx[p] \notin Files
    /\ tar_open' = [tar_open EXCEPT ![p] = FALSE]
    /\ Logged(p, SummaryRecords(p))
    /\ run_count' = [run_count EXCEPT ![p] = archived_file_count[p]]
    /\ Goto(p, "finally")
    /\ UNCHANGED <<force_archive, group_name, lockfile_base, lock, group, exit_msg>>
    /\ UNCHANGED <<idx, cand, file_lock, exc, archived_file_count, not_transferred>>
    /\ UNCHANGED <<worldVars, histVars, polVars, entry_path>>

\* ------------------------------------------------- run(): after the pipeline
\* except Exception as ex: self._log_error('Unrecoverable error', error=ex).
Unrecoverable(p) ==
    /\ pc[p] = "unrecoverable"
    /\ Logged(p, {log_error(p, "Unrecoverable error", {"error"})})
    /\ Goto(p, "finally")
    /\ UNCHANGED <<force_archive, group_name, lockfile_base, lock, group, run_count, exit_msg>>
    /\ UNCHANGED <<pipeVars, worldVars, histVars, polVars, entry_path>>

\* Variant: the handle is never released.
release_process_lock_skipped(p) ==
    [lock |-> lock[p], plock |-> plock, released |-> 0, raised |-> FALSE]

\* Variant: no except clause, the RuntimeError of a handle that is not held
\* leaves the method.
release_process_lock_uncaught(p) ==
    IF lock[p] = "acquired"
    THEN [lock |-> "unacquired",
          plock |-> [plock EXCEPT ![get_lockfile_name(lockfile_base[p], group_name[p]).val] = @ \ {p}],
          released |-> 1, raised |-> FALSE]
    ELSE [lock |-> lock[p], plock |-> plock, released |-> 0,
          raised |-> lock[p] = "unacquired"]

\* _release_process_lock: releases a held handle; releasing a handle that is not
\* held raises RuntimeError, which is swallowed; no handle, nothing to do.
\* raised says whether an exception leaves the method.
release_process_lock(p) ==
    IF lock[p] = "acquired"
    THEN [lock |-> "unacquired",
          plock |-> [plock EXCEPT ![get_lockfile_name(lockfile_base[p], group_name[p]).val] = @ \ {p}],
          released |-> 1, raised |-> FALSE]
    ELSE [lock |-> lock[p], plock |-> plock, released |-> 0, raised |-> FALSE]

\* finally: self._release_process_lock().
ReleaseProcessLock(p) ==
    /\ pc[p] = "finally"
    /\ LET r == release_process_lock(p)
       IN  /\ lock' = [lock EXCEPT ![p] = r.lock]
           /\ plock' = r.plock
           /\ plock_releases' = [plock_releases EXCEPT ![p] = @ + r.released]
           /\ Goto(p, IF r.raised THEN "raised" ELSE "report")
    /\ UNCHANGED <<force_archive, group_name, lockfile_base, group, run_count, exit_msg, log>>
    /\ UNCHANGED <<pipeVars, flock, on_disk, archive, polVars, entry_path>>
    /\ UNCHANGED <<appended, deleted, obtained, released, examined, rejected, gates>>

\* Variant: the test is archived_file_count <= 0.
OutcomeRecord_nonpositive(p) ==
    IF run_count[p] <= 0
    THEN log_error(p, "No files for group %s found in directory %s", {})
    ELSE log_info(p, "Archiving completed", {})

\* The record run() ends with.
OutcomeRecord(p) ==
    IF run_count[p] = 0
    THEN log_error(p, "No files for group %s found in directory %s", {})
    ELSE log_info(p, "Archiving completed", {})

ReportOutcome(p) ==
    /\ pc[p] = "report"
    /\ Logged(p, {OutcomeRecord(p)})
    /\ Goto(p, "returned")
    /\ UNCHANGED <<force_archive, group_name, lockfile_base, lock, group, run_count, exit_msg>>
    /\ UNCHANGED <<pipeVars, worldVars, histVars, polVars, entry_path>>

\* ------------------------------------------------------------ specification
Step(p) ==
        \/ CheckCallerPrivilege(p)
        \/ CheckTargetNotRoot(p)
        \/ CheckTargetExists(p)
        \/ ResolveGroup(p)
        \/ AcquireProcessLock(p)
        \/ BeginArchive(p)
        \/ OpenArchive(p)
        \/ Examine(p)
        \/ GetFilelock(p)
        \/ ArchiveFile(p)
        \/ DeleteFile(p)
        \/ ReleaseFilelock(p)
        \/ EndTraversal(p)
        \/ Unrecoverable(p)
        \/ ReleaseProcessLock(p)
        \/ ReportOutcome(p)

Next == \E p \in Procs : Step(p)

\* The invocations run concurrently.
Spec == Init /\ [][Next]_vars

\* One invocation runs on its own: the others have not started.
RunNext == \E p \in {1} : Step(p)

RunSpec == InitAnyDisk /\ [][RunNext]_vars

\* The invocations run one after another, in any order: an invocation takes a
\* step only while every other one has not started or has ended.
Ended == {"returned", "exited", "raised"}

Alone(p) == \A q \in Procs \ {p} : pc[q] \in Ended \cup {"start"}

SeqNext ==
    \E p \in Procs :
        \/ Alone(p) /\ CheckCallerPrivilege(p)
        \/ Alone(p) /\ CheckTargetNotRoot(p)
        \/ Alone(p) /\ CheckTargetExists(p)
        \/ Alone(p) /\ ResolveGroup(p)
        \/ Alone(p) /\ AcquireProcessLock(p)
        \/ Alone(p) /\ BeginArchive(p)
        \/ Alone(p) /\ OpenArchive(p)
        \/ Alone(p) /\ Examine(p)
        \/ Alone(p) /\ GetFilelock(p)
        \/ Alone(p) /\ ArchiveFile(p)
        \/ Alone(p) /\ DeleteFile(p)
        \/ Alone(p) /\ ReleaseFilelock(p)
        \/ Alone(p) /\ EndTraversal(p)
        \/ Alone(p) /\ Unrecoverable(p)
        \/ Alone(p) /\ ReleaseProcessLock(p)
        \/ Alone(p) /\ ReportOutcome(p)

SeqSpec == InitAnyDisk /\ [][SeqNext]_vars

\* A new process takes the place of one whose run has ended: the process of the
\* earlier run is gone, and with it the locks it held; main() builds a new
\* ArchiveRunner from its arguments.
NewProcess(p, force) ==
    /\ force_archive' = [force_archive EXCEPT ![p] = force]
    /\ pc' = [pc EXCEPT ![p] = "start"]
    /\ lock' = [lock EXCEPT ![p] = "None"]
    /\ group' = [group EXCEPT ![p] = NoGroup]
    /\ run_count' = [run_count EXCEPT ![p] = -1]
    /\ exit_msg' = [exit_msg EXCEPT ![p] = ""]
    /\ log' = [log EXCEPT ![p] = {}]
    /\ idx' = [idx EXCEPT ![p] = 1]
    /\ cand' = [cand EXCEPT ![p] = NoCand]
    /\ file_lock' = [file_lock EXCEPT ![p] = {}]
    /\ exc' = [exc EXCEPT ![p] = FALSE]
    /\ archived_file_count' = [archived_file_count EXCEPT ![p] = 0]
    /\ not_transferred' = [not_transferred EXCEPT ![p] = 0]
    /\ tar_open' = [tar_open EXCEPT ![p] = FALSE]
    /\ plock' = [path \in LockPaths |-> plock[path] \ {p}]
    /\ flock' = [f \in Files |-> flock[f] \ {p}]
    /\ appended' = [appended EXCEPT ![p] = {}]
    /\ deleted' = [deleted EXCEPT ![p] = {}]
    /\ obtained' = [obtained EXCEPT ![p] = {}]
    /\ released' = [released EXCEPT ![p] = [f \in Files |-> 0]]
    /\ plock_releases' = [plock_releases EXCEPT ![p] = 0]
    /\ examined' = [examined EXCEPT ![p] = [f \in Files |-> 0]]
    /\ rejected' = [rejected EXCEPT ![p] = {}]
    /\ gates' = [gates EXCEPT ![p] = <<>>]
    /\ UNCHANGED <<group_name, lockfile_base, on_disk, archive, polVars, entry_path>>

\* The program is run again after a run has ended, for the same group and with
\* the same arguments.
RunAgain(p) ==
    /\ pc[p] \in Ended
    /\ \A t \in TarPaths : \A f \in Files : archive[t][f] < MaxEntries
    /\ NewProcess(p, force_archive[p])

\* Repeated runs of the program for one group, each started after the one
\* before has ended. A run takes its steps, and the program is run again.
LiveNext == \E p \in {1} : Step(p) \/ RunAgain(p)

LiveSpec == InitAnyDisk /\ [][LiveNext]_vars /\ WF_vars(LiveNext)

\* After a run with --force has ended the program is run once more for the same
\* group, without --force.
RunUnforced(p) ==
    /\ pc[p] \in Ended
    /\ force_archive[p]
    /\ NewProcess(p, FALSE)

\* A run without --force and a run with --force for the same group,
\* concurrently, and a further run without --force after the forced one.
ForceInit ==
    /\ Init
    /\ ~force_archive[1]
    /\ \A p \in Procs \ {1} : force_archive[p] /\ group_name[p] = group_name[1]

ForceNext == \E p \in Procs : Step(p) \/ RunUnforced(p)

ForceSpec == ForceInit /\ [][ForceNext]_vars

\* One invocation runs on a base_dir whose entries can be files the runners
\* themselves work with, each at a path of its own; every entry is there when
\* the run starts.
OwnInit ==
    /\ InitRunOn({LOCKFILE_BASE},
                 {e \in [Files -> Entries] :
                     \A f, g \in Files :
                         (f # g /\ e[f] = e[g]) => e[f] = OrdinaryFile})
    /\ on_disk = Files

OwnSpec == OwnInit /\ [][RunNext]_vars

\* ------------------------------------- the lock methods called on their own
\* A caller other than run() (the tests are one) calls _acquire_process_lock
\* and _release_process_lock on a runner directly: the release with or without
\* an acquire before it, whatever the acquire answered.
AcquireProcessLockCall(p) ==
    /\ pc[p] = "start"
    /\ LET r == acquire_process_lock(p)
       IN  /\ lock' = [lock EXCEPT ![p] = r.lock]
           /\ plock' = r.plock
           /\ Goto(p, IF r.result THEN "acquire_true" ELSE "acquire_false")
    /\ UNCHANGED <<force_archive, group_name, lockfile_base, group, run_count, exit_msg, log>>
    /\ UNCHANGED <<pipeVars, flock, on_disk, archive, histVars, polVars, entry_path>>

ReleaseProcessLockCall(p) ==
    /\ pc[p] \in {"start", "acquire_true", "acquire_false"}
    /\ LET r == release_process_lock(p)
       IN  /\ lock' = [lock EXCEPT ![p] = r.lock]
           /\ plock' = r.plock
           /\ plock_releases' = [plock_releases EXCEPT ![p] = @ + r.released]
           /\ Goto(p, IF r.raised THEN "raised" ELSE "release_returned")
    /\ UNCHANGED <<force_archive, group_name, lockfile_base, group, run_count, exit_msg, log>>
    /\ UNCHANGED <<pipeVars, flock, on_disk, archive, polVars, entry_path>>
    /\ UNCHANGED <<appended, deleted, obtained, released, examined, rejected, gates>>

LockNext ==
    \E p \in Procs :
        \/ AcquireProcessLockCall(p)
        \/ ReleaseProcessLockCall(p)

\* The runners are built with any of the lock-file templates.
LockInit == InitRunWith(LockTemplates) /\ on_disk = Files

LockSpec == LockInit /\ [][LockNext]_vars

\* ------------------------------------------ the policy evaluated on its own
\* Every Group the system can hand over and every answer a candidate can give.
Groups == [id : {1500}, name : GroupNames, members : SUBSET Users]

PolicyInit ==
    /\ pc = [p \in Procs |-> "returned"]
    /\ force_archive = [p \in Procs |-> FALSE]
    /\ group_name = [p \in Procs |-> "staff"]
    /\ lockfile_base = [p \in Procs |-> LOCKFILE_BASE]
    /\ gates = [p \in Procs |-> <<>>]
    /\ lock = [p \in Procs |-> "None"]
    /\ group = [p \in Procs |-> NoGroup]
    /\ run_count = [p \in Procs |-> -1]
    /\ idx = [p \in Procs |-> 1]
    /\ cand = [p \in Procs |-> NoCand]
    /\ file_lock = [p \in Procs |-> {}]
    /\ exc = [p \in Procs |-> FALSE]
    /\ archived_file_count = [p \in Procs |-> 0]
    /\ not_transferred = [p \in Procs |-> 0]
    /\ exit_msg = [p \in Procs |-> ""]
    /\ log = [p \in Procs |-> {}]
    /\ plock = [path \in LockPaths |-> {}]
    /\ flock = [f \in Files |-> {}]
    /\ on_disk = Files
    /\ archive = [t \in TarPaths |-> [f \in Files |-> 0]]
    /\ tar_open = [p \in Procs |-> FALSE]
    /\ appended = [p \in Procs |-> {}]
    /\ deleted = [p \in Procs |-> {}]
    /\ obtained = [p \in Procs |-> {}]
    /\ released = [p \in Procs |-> [f \in Files |-> 0]]
    /\ plock_releases = [p \in Procs |-> 0]
    /\ examined = [p \in Procs |-> [f \in Files |-> 0]]
    /\ rejected = [p \in Procs |-> {}]
    /\ pol_fl \in Candidates
    /\ pol_group \in Groups
    /\ pol_out = <<>>
    /\ PathIdle
    /\ entry_path = [f \in Files |-> OrdinaryFile]

\* self._should_archive(fl, group) called on its own.
ShouldArchiveCall ==
    /\ pol_out = <<>>
    /\ pol_out' = <<should_archive(pol_fl, pol_group)>>
    /\ UNCHANGED <<pol_fl, pol_group, path_args, path_out>>
    /\ UNCHANGED <<runVars, pipeVars, worldVars, histVars, entry_path>>

PolicySpec == PolicyInit /\ [][ShouldArchiveCall]_vars

\* --------------------------------------- the path names computed on their own
\* The templates a runner can be built with: the defaults and every sequence
\* of at most MaxLen tokens.
MaxLen == 3

Tokens == {"foo", "%s", "%d", "%%", "%"}

Templates ==
    {LOCKFILE_BASE, LOGFILE_BASE, TARFILE_BASE} \cup
    UNION {[1..n -> Tokens] : n \in 1..MaxLen}

PathInit ==
    /\ pc = [p \in Procs |-> "returned"]
    /\ force_archive = [p \in Procs |-> FALSE]
    /\ group_name = [p \in Procs |-> "staff"]
    /\ lockfile_base = [p \in Procs |-> LOCKFILE_BASE]
    /\ gates = [p \in Procs |-> <<>>]
    /\ lock = [p \in Procs |-> "None"]
    /\ group = [p \in Procs |-> NoGroup]
    /\ run_count = [p \in Procs |-> -1]
    /\ idx = [p \in Procs |-> 1]
    /\ cand = [p \in Procs |-> NoCand]
    /\ file_lock = [p \in Procs |-> {}]
    /\ exc = [p \in Procs |-> FALSE]
    /\ archived_file_count = [p \in Procs |-> 0]
    /\ not_transferred = [p \in Procs |-> 0]
    /\ exit_msg = [p \in Procs |-> ""]
    /\ log = [p \in Procs |-> {}]
    /\ plock = [path \in LockPaths |-> {}]
    /\ flock = [f \in Files |-> {}]
    /\ on_disk = Files
    /\ archive = [t \in TarPaths |-> [f \in Files |-> 0]]
    /\ tar_open = [p \in Procs |-> FALSE]
    /\ appended = [p \in Procs |-> {}]
    /\ deleted = [p \in Procs |-> {}]
    /\ obtained = [p \in Procs |-> {}]
    /\ released = [p \in Procs |-> [f \in Files |-> 0]]
    /\ plock_releases = [p \in Procs |-> 0]
    /\ examined = [p \in Procs |-> [f \in Files |-> 0]]
    /\ rejected = [p \in Procs |-> {}]
    /\ PolicyIdle
    /\ path_args \in [method : {"lockfile", "logfile", "tarfile"},
                      base : Templates, name : GroupNames]
    /\ path_out = <<>>
    /\ entry_path = [f \in Files |-> OrdinaryFile]

PathCall(method, outcome) ==
    /\ path_out = <<>>
    /\ path_args.method = method
    /\ path_out' = <<outcome>>
    /\ UNCHANGED <<path_args, pol_fl, pol_group, pol_out>>
    /\ UNCHANGED <<runVars, pipeVars, worldVars, histVars, entry_path>>

\* self._get_lockfile_name() on a runner built with the template and the name.
GetLockfileNameCall ==
    PathCall("lockfile", get_lockfile_name(path_args.base, path_args.name))

GetLogfileNameCall ==
    PathCall("logfile", get_logfile_name(path_args.base, path_args.name))

GetTarfileNameCall ==
    PathCall("tarfile", get_tarfile_name(path_args.base, path_args.name))

PathNext ==
    \/ GetLockfileNameCall
    \/ GetLogfileNameCall
    \/ GetTarfileNameCall

PathSpec == PathInit /\ [][PathNext]_vars

\* =================================================================== claims
\* The ownership policy as the specification words it.
PolicyAccepts(c, g) ==
    /\ c.is_file
    /\ \/ c.group = g.name
       \/ c.owner \in g.members /\ c.group = c.owner

LockPath(p) == get_lockfile_name(lockfile_base[p], group_name[p]).val
UnitPcs == {"archive", "delete", "release"}
TryPcs == {"open", "loop", "getlock", "unrecoverable", "finally"} \cup UnitPcs
InPipeline(p) == pc[p] \in {"begin"} \cup TryPcs
AfterPipeline(p) == pc[p] \in {"finally", "report", "returned"}
NoFileOps(p) ==
    /\ obtained[p] = {} /\ appended[p] = {} /\ deleted[p] = {}
    /\ file_lock[p] = {}
    /\ \A f \in Files : p \notin flock[f] /\ examined[p][f] = 0
Msgs(p) == {r.msg : r \in log[p]}
OutcomeMsgs == {"Archiving completed", "No files for group %s found in directory %s"}

\* C1: two non-forced invocations for one group are never inside the pipeline at
\* the same time, an invocation working on files holds its group's process lock,
\* and an invocation whose acquire failed has exited with the contention message
\* in that same step, having touched no file.
C1_MutualExclusion ==
    /\ \A p, q \in Procs :
          (p # q /\ ~force_archive[p] /\ ~force_archive[q] /\ LockPath(p) = LockPath(q))
          => ~(InPipeline(p) /\ InPipeline(q))
    /\ \A p \in Procs :
          /\ (~force_archive[p] /\ InPipeline(p)) => plock[LockPath(p)] = {p}
          /\ (lock[p] = "unacquired" /\ plock_releases[p] = 0)
             => (pc[p] = "exited" /\ exit_msg[p] = MsgLockContention)
          /\ exit_msg[p] = MsgLockContention
             => (pc[p] = "exited" /\ ~force_archive[p] /\ NoFileOps(p)
                 /\ p \notin plock[LockPath(p)])

C1_Witness ==
    \E p, q \in Procs :
        /\ p # q /\ ~force_archive[p] /\ ~force_archive[q] /\ LockPath(p) = LockPath(q)
        /\ pc[p] = "delete"
        /\ exit_msg[q] = MsgLockContention

\* C2: the files an invocation deleted are among those it appended, those among
\* the ones whose lock it obtained; and it stands before a delete only with the
\* append done, no exception in flight, the file's lock held by it alone, and a
\* candidate the policy accepts.
C2_DeleteOnlyAfterAppend ==
    \A p \in Procs :
        /\ deleted[p] \subseteq appended[p]
        /\ appended[p] \subseteq obtained[p]
        /\ pc[p] = "delete" =>
              /\ ~exc[p]
              /\ idx[p] \in appended[p]
              /\ file_lock[p] = {idx[p]}
              /\ flock[idx[p]] = {p}
              /\ PolicyAccepts(cand[p], group[p])

C2_Witness ==
    \E p \in Procs : \E f, g \in Files :
        /\ f \in deleted[p]
        /\ g \in obtained[p] \ appended[p]
        /\ g \in on_disk
        /\ pc[p] = "loop"

\* C3: an exception in the append/delete unit is in flight only up to the finally
\* clause and never for a deleted file; the step that handles it adds one to
\* not_transferred, leaves archived_file_count alone and goes on with the next
\* candidate; a pipeline that locked a file and out of which no exception came
\* ends only with the traversal exhausted; and with files 1 and 2 the only ones
\* examined, both locked, 1 archived and deleted and 2 failing in the append, it
\* then ends with 1 and 1.
C3_Handled(p) ==
    (pc[p] = "release" /\ exc[p] /\ pc'[p] # "release") =>
        /\ not_transferred'[p] = not_transferred[p] + 1
        /\ archived_file_count'[p] = archived_file_count[p]
        /\ pc'[p] = "loop"
        /\ idx'[p] = idx[p] + 1
        /\ ~exc'[p]

C3_State(p) ==
    /\ exc[p] => (pc[p] = "release" /\ idx[p] \notin deleted[p])
    /\ (AfterPipeline(p) /\ obtained[p] # {} /\ "Unrecoverable error" \notin Msgs(p))
       => (idx[p] \notin Files /\ run_count[p] >= 0)
    /\ ( /\ AfterPipeline(p) /\ "Unrecoverable error" \notin Msgs(p)
         /\ obtained[p] = {1, 2} /\ appended[p] = {1} /\ deleted[p] = {1}
         /\ \A f \in Files \ {1, 2} : examined[p][f] = 0 )
       => (archived_file_count[p] = 1 /\ not_transferred[p] = 1 /\ run_count[p] = 1)

C3_PerFileIsolation == [][\A p \in Procs : C3_Handled(p) /\ C3_State(p)']_vars

C3_Witness ==
    \E p \in Procs :
        /\ pc[p] = "returned"
        /\ obtained[p] = {1, 2} /\ appended[p] = {1} /\ deleted[p] = {1}
        /\ \A f \in Files \ {1, 2} : examined[p][f] = 0
        /\ not_transferred[p] = 1

\* C4: an invocation holds at most one file lock, that of the candidate of the
\* unit it is in, and none outside the unit (at the loop head, after the
\* pipeline); every lock it obtained and no longer holds was released once.
C4_FileLockReleasedOnce ==
    \A p \in Procs :
        /\ Cardinality(file_lock[p]) <= 1
        /\ {f \in Files : p \in flock[f]} = file_lock[p]
        /\ pc[p] \in UnitPcs => file_lock[p] = {idx[p]}
        /\ pc[p] \notin UnitPcs => file_lock[p] = {}
        /\ \A f \in Files :
              released[p][f] = IF f \in obtained[p] \ file_lock[p] THEN 1 ELSE 0

C4_Witness ==
    \E p \in Procs : \E f, g \in Files :
        /\ pc[p] = "finally"
        /\ f \in deleted[p] /\ released[p][f] = 1
        /\ g \in obtained[p] \ deleted[p] /\ released[p][g] = 1

\* C5: the step in which _get_filelock hands back no handle adds one to
\* not_transferred and moves to the next candidate, and changes nothing else:
\* not the archive, the disk, the locks, archived_file_count or what was
\* released; the append/delete unit is entered only with a handle.
C5_NoHandle(p) ==
    (pc[p] = "getlock" /\ pc'[p] # "getlock" /\ file_lock'[p] = {}) =>
        /\ pc'[p] = "loop"
        /\ idx'[p] = idx[p] + 1
        /\ not_transferred'[p] = not_transferred[p] + 1
        /\ archived_file_count'[p] = archived_file_count[p]
        /\ UNCHANGED <<archive, on_disk, flock, appended, deleted, obtained, released>>

C5_LockBusySkip ==
    [][\A p \in Procs : C5_NoHandle(p) /\ (pc'[p] \in UnitPcs => file_lock'[p] # {})]_vars

C5_Witness ==
    \E p \in Procs :
        /\ pc[p] = "loop" /\ idx[p] = 2
        /\ "Unable to transfer file. File in use" \in Msgs(p)
        /\ not_transferred[p] = 1 /\ archived_file_count[p] = 0
        /\ obtained[p] = {} /\ 1 \in on_disk

\* C6: a non-forced invocation holds its process lock all through the try block
\* and has not released it yet; once past the finally clause it has released it
\* exactly once and holds it no more; the outcome record is logged only after.
C6_ProcessLockReleasedOnce ==
    \A p \in Procs :
        ~force_archive[p] =>
            /\ plock_releases[p] <= 1
            /\ pc[p] \in TryPcs =>
                  (lock[p] = "acquired" /\ plock[LockPath(p)] = {p} /\ plock_releases[p] = 0)
            /\ pc[p] \in {"report", "returned"} =>
                  (lock[p] = "unacquired" /\ p \notin plock[LockPath(p)]
                   /\ plock_releases[p] = 1)
            /\ Msgs(p) \cap OutcomeMsgs # {} => plock_releases[p] = 1

C6_Witness ==
    \E p \in Procs :
        /\ ~force_archive[p] /\ pc[p] = "returned"
        /\ run_count[p] = -1 /\ plock_releases[p] = 1

\* C7: when the pipeline handed back no count, run() has logged 'Unrecoverable
\* error' by the time it reaches the finally clause; an invocation that logged
\* 'Beginning archive' never ends by an exception or a SystemExit; and a run()
\* that returned has logged its outcome and holds no process lock.
C7_UnrecoverableCaught ==
    \A p \in Procs :
        /\ (AfterPipeline(p) /\ run_count[p] = -1) => "Unrecoverable error" \in Msgs(p)
        /\ "Beginning archive" \in Msgs(p) => pc[p] \notin {"raised", "exited"}
        /\ pc[p] = "returned" =>
              /\ exit_msg[p] = ""
              /\ Msgs(p) \cap OutcomeMsgs # {}
              /\ p \notin plock[LockPath(p)]

C7_Witness ==
    \E p \in Procs :
        /\ pc[p] = "returned"
        /\ "Unrecoverable error" \in Msgs(p)
        /\ Msgs(p) \cap OutcomeMsgs # {}
        /\ ~tar_open[p] /\ examined[p] = [f \in Files |-> 0]

\* C8: the gates an invocation has evaluated are a prefix of the fixed order; an
\* invocation that exited did so with the message of the last gate it evaluated,
\* holds no process lock (and has no handle unless that gate was the lock gate)
\* and touched no file; past the gates all five were evaluated.
GateOrder ==
    <<"caller_privilege", "target_not_root", "target_exists", "resolve_group",
      "acquire_process_lock">>

GateMsg(gate) ==
    CASE gate = "caller_privilege" -> MsgNotRoot
      [] gate = "target_not_root" -> MsgRootDir
      [] gate = "target_exists" -> MsgInvalidDir
      [] gate = "resolve_group" -> MsgInvalidGroup
      [] gate = "acquire_process_lock" -> MsgLockContention

GatePcs == {"start", "check_root", "check_dir", "get_group", "acquire"}

C8_GateOrder ==
    \A p \in Procs :
        /\ Len(gates[p]) <= Len(GateOrder)
        /\ \A i \in 1..Len(gates[p]) : gates[p][i] = GateOrder[i]
        /\ exit_msg[p] # "" <=> pc[p] = "exited"
        /\ pc[p] = "exited" =>
              /\ gates[p] # <<>>
              /\ exit_msg[p] = GateMsg(gates[p][Len(gates[p])])
              /\ gates[p][Len(gates[p])] # "acquire_process_lock" => lock[p] = "None"
              /\ \A path \in LockPaths : p \notin plock[path]
              /\ NoFileOps(p)
        /\ pc[p] \notin GatePcs \cup {"exited"} => gates[p] = GateOrder

C8_Witness ==
    \E p \in Procs :
        /\ pc[p] = "exited"
        /\ gates[p] = <<"caller_privilege", "target_not_root", "target_exists">>
        /\ exit_msg[p] = MsgInvalidDir

\* C9: what _should_archive returned is what the policy of the specification
\* says of the same candidate and group.
C9_PolicyExact ==
    pol_out # <<>> => pol_out[1] = PolicyAccepts(pol_fl, pol_group)

C9_Witness ==
    /\ pol_out = <<TRUE>>
    /\ pol_fl.group # pol_group.name
    /\ pol_fl.owner \in pol_group.members

\* C10: for an entry that is not a regular file _should_archive returned false,
\* whoever owns it.
C10_NotRegularFile ==
    (pol_out # <<>> /\ ~pol_fl.is_file) => pol_out = <<FALSE>>

C10_Witness ==
    /\ pol_out = <<FALSE>>
    /\ ~pol_fl.is_file
    /\ pol_fl.group = pol_group.name

\* C11: for a candidate whose owner is a member of the group but whose
\* group-owner is neither the group's name nor the owner's own name,
\* _should_archive returned false.
MemberWrongGroup(c, g) ==
    /\ c.owner \in g.members
    /\ c.group # g.name
    /\ c.group # c.owner

C11_MemberWrongGroupRejected ==
    (pol_out # <<>> /\ MemberWrongGroup(pol_fl, pol_group)) => pol_out = <<FALSE>>

C11_Witness ==
    /\ pol_out = <<FALSE>>
    /\ pol_fl.is_file
    /\ MemberWrongGroup(pol_fl, pol_group)
    /\ pol_fl.group \in GroupNames

\* C12: a candidate the policy rejected was never locked, appended, deleted or
\* released by the invocation; the step that rejects it moves on to the next
\* candidate and changes no lock, no archive, no file, neither counter and not
\* the console log; the lock and the append/delete unit are entered only with a
\* candidate the policy accepts; and with files 1 and 2 the only ones examined,
\* one rejected and the other archived and deleted, a pipeline out of which no
\* exception came ends with
\* archived 1 and not-transferred 0, the rejected file on disk and not in the
\* archive.
C12_Rejects(p) ==
    rejected'[p] # rejected[p] =>
        /\ pc[p] = "loop" /\ pc'[p] = "loop"
        /\ idx'[p] = idx[p] + 1
        /\ rejected'[p] = rejected[p] \cup {idx[p]}
        /\ archived_file_count'[p] = archived_file_count[p]
        /\ not_transferred'[p] = not_transferred[p]
        /\ log'[p] = log[p]
        /\ UNCHANGED <<flock, file_lock, archive, on_disk>>
        /\ UNCHANGED <<obtained, appended, deleted, released>>

C12_State(p) ==
    /\ \A f \in rejected[p] :
          /\ f \notin obtained[p] \cup appended[p] \cup deleted[p]
          /\ released[p][f] = 0
          /\ p \notin flock[f]
          /\ archive[get_tarfile_name(TARFILE_BASE, group_name[p]).val][f] = 0
    /\ pc[p] \in {"getlock"} \cup UnitPcs =>
          (PolicyAccepts(cand[p], group[p]) /\ idx[p] \notin rejected[p])
    /\ \A a, b \in {1, 2} :
          ( /\ AfterPipeline(p) /\ "Unrecoverable error" \notin Msgs(p)
            /\ rejected[p] = {b} /\ deleted[p] = {a}
            /\ examined[p][a] = 1 /\ examined[p][b] = 1
            /\ \A f \in Files \ {1, 2} : examined[p][f] = 0 )
          => /\ archived_file_count[p] = 1 /\ not_transferred[p] = 0
             /\ run_count[p] = 1
             /\ appended[p] = {a} /\ obtained[p] = {a}
             /\ b \in on_disk /\ a \notin on_disk

C12_IneligibleSkipped == [][\A p \in Procs : C12_Rejects(p) /\ C12_State(p)']_vars

C12_Witness ==
    \E p \in Procs :
        /\ pc[p] = "returned"
        /\ rejected[p] = {2} /\ deleted[p] = {1}
        /\ examined[p][1] = 1 /\ examined[p][2] = 1
        /\ \A f \in Files \ {1, 2} : examined[p][f] = 0
        /\ archived_file_count[p] = 1 /\ not_transferred[p] = 0

\* C13: a forced runner never has a lock handle, never holds a lock file and
\* never released one; its _acquire_process_lock never answers False, its
\* _release_process_lock never raises, and no call of either changes any lock
\* file, whoever holds the group's lock file at the time.
C13_Forced(p) ==
    /\ lock[p] = "None"
    /\ \A path \in LockPaths : p \notin plock[path]
    /\ plock_releases[p] = 0
    /\ pc[p] \notin {"acquire_false", "raised"}

C13_ForceBypassesLock ==
    [][\A p \in Procs :
          force_archive[p] =>
             /\ C13_Forced(p)'
             /\ pc'[p] # pc[p] => (plock' = plock /\ lock' = lock)]_vars

C13_Witness ==
    \E p, q \in Procs :
        /\ force_archive[p] /\ pc[p] = "release_returned"
        /\ q # p /\ plock[LockPath(p)] = {q}
        /\ lock[q] = "acquired"

\* C14: a _release_process_lock called with no handle, or with a handle that
\* was never acquired, returns without raising and changes neither the handle
\* nor any lock file nor the count of releases; no call by a runner takes
\* another runner out of the holders of a lock file; and the method never
\* raises.
C14_NotHeld(p) ==
    (pc'[p] \in {"release_returned", "raised"} /\ pc[p] # pc'[p] /\ lock[p] # "acquired") =>
        /\ pc'[p] = "release_returned"
        /\ lock'[p] = lock[p]
        /\ plock' = plock
        /\ plock_releases' = plock_releases

C14_ReleaseUnacquiredNoop ==
    [][\A p \in Procs :
          /\ C14_NotHeld(p)
          /\ pc'[p] # "raised"
          /\ pc'[p] # pc[p] =>
                \A path \in LockPaths : plock[path] \ {p} \subseteq plock'[path]]_vars

C14_Witness ==
    \E p, q \in Procs :
        /\ pc[p] = "release_returned"
        /\ lock[p] = "unacquired" /\ plock_releases[p] = 0
        /\ q # p /\ plock[LockPath(p)] = {q}

\* C15 as amended: run() has logged no outcome before it returns; when it has
\* returned it logged 'No files for group ... found' exactly when the pipeline
\* handed back the count 0, and 'Archiving completed' exactly otherwise: when
\* the count is at least 1, and also when the pipeline raised and the count is
\* still the sentinel -1 ('Unrecoverable error' was logged before). A count
\* that was handed back is the number of files the invocation deleted.
MsgNoFiles == "No files for group %s found in directory %s"
MsgCompleted == "Archiving completed"

C15_OutcomeByCount ==
    \A p \in Procs :
        /\ pc[p] # "returned" => Msgs(p) \cap OutcomeMsgs = {}
        /\ pc[p] = "returned" =>
              /\ MsgNoFiles \in Msgs(p) <=> run_count[p] = 0
              /\ MsgCompleted \in Msgs(p) <=> run_count[p] # 0
              /\ run_count[p] = -1 => "Unrecoverable error" \in Msgs(p)
              /\ run_count[p] # -1 => run_count[p] = Cardinality(deleted[p])

C15_Witness ==
    \E p \in Procs :
        /\ pc[p] = "returned"
        /\ run_count[p] = -1
        /\ MsgCompleted \in Msgs(p) /\ MsgNoFiles \notin Msgs(p)
        /\ deleted[p] = {}

\* C15 as stated: a run() that returned reports 'no files' whenever no file
\* was archived, the sentinel -1 included, and success only with at least one
\* file archived.
C15_AsStated ==
    \A p \in Procs :
        pc[p] = "returned" =>
            /\ run_count[p] <= 0 => (MsgNoFiles \in Msgs(p) /\ MsgCompleted \notin Msgs(p))
            /\ MsgCompleted \in Msgs(p) => run_count[p] >= 1

\* C16: an invocation that passed all five gates never ends by a SystemExit or
\* by an exception that leaves run(), whatever happened to the files.
PassedGates(p) == gates[p] = GateOrder /\ pc[p] \notin GatePcs \cup {"exited"}

C16_AsStated ==
    \A p \in Procs : PassedGates(p) => pc[p] # "raised"

\* C17: an invocation that passed all five gates and whose traversal produced
\* no entry at all ends by raising SystemExit, so it never returns.
NothingTraversed(p) ==
    /\ run_count[p] = 0
    /\ \A f \in Files : examined[p][f] = 0

C17_AsStated ==
    \A p \in Procs :
        (PassedGates(p) /\ NothingTraversed(p)) => pc[p] # "returned"

\* C18: an invocation that exited at the privilege gate has logged exactly one
\* error record, 'Non-root user tried to run archy', carrying the user name.
MsgNonRoot == "Non-root user tried to run archy"

C18_AsStated ==
    \A p \in Procs :
        exit_msg[p] = MsgNotRoot =>
            /\ pc[p] = "exited"
            /\ \E r \in log[p] :
                  /\ r.msg = MsgNonRoot
                  /\ r.extra.level = "ERROR"
                  /\ "user" \in r.extra.keys
                  /\ log[p] = {r}

\* C19: no step takes an entry out of an archive, opening it included; and at
\* every moment an archive holds, for each file, one entry per invocation for
\* that archive that appended the file, so after two runs it holds the entries
\* of both.
TarOf(p) == get_tarfile_name(TARFILE_BASE, group_name[p]).val

Appenders(t, f) == {p \in Procs : f \in appended[p] /\ TarOf(p) = t}

C19_EntriesOfAllRuns ==
    \A t \in TarPaths : \A f \in Files :
        archive[t][f] = Cardinality(Appenders(t, f))

C19_AppendOnly ==
    [][ /\ \A t \in TarPaths : \A f \in Files : archive'[t][f] >= archive[t][f]
        /\ C19_EntriesOfAllRuns' ]_vars

C19_Witness ==
    \E p, q \in Procs :
        /\ p # q /\ TarOf(p) = TarOf(q)
        /\ pc[p] = "returned" /\ pc[q] = "returned"
        /\ appended[p] = {1} /\ appended[q] = {2}
        /\ archive[TarOf(p)][1] = 1 /\ archive[TarOf(p)][2] = 1

\* C20: a run whose every examined entry the policy rejected leaves the files
\* of the directory and the archives as they are at each of its steps, and its
\* pipeline hands back the count 0, which run() reports as 'No files for group
\* ... found'; this holds of each of the runs made one after another.
AllRejected(p) == \A f \in Files : examined[p][f] > 0 => f \in rejected[p]

C20_CountZero(p) ==
    (AfterPipeline(p) /\ run_count[p] # -1 /\ AllRejected(p)) =>
        /\ run_count[p] = 0 /\ archived_file_count[p] = 0
        /\ deleted[p] = {} /\ appended[p] = {}
        /\ pc[p] = "returned" => MsgNoFiles \in Msgs(p)

C20_NoEligibleIdempotent ==
    [][\A p \in Procs :
          /\ (pc'[p] # pc[p] /\ AllRejected(p)') =>
                (on_disk' = on_disk /\ archive' = archive)
          /\ C20_CountZero(p)']_vars

C20_Witness ==
    \E p, q \in Procs :
        /\ p # q /\ group_name[p] = group_name[q]
        /\ pc[p] = "returned" /\ pc[q] = "returned"
        /\ rejected[p] = Files /\ rejected[q] = Files
        /\ run_count[p] = 0 /\ run_count[q] = 0
        /\ on_disk = Files

\* C21: the step that takes an entry in hand (resolves its name, evaluates the
\* policy) never leaves the pipeline: it goes on to the file lock or to the
\* next entry, and when an exception was raised in it the entry is counted
\* once as not transferred.
C21_Raised(p) ==
    /\ examined'[p] # examined[p]
    /\ pc'[p] # "getlock"
    /\ rejected'[p] = rejected[p]

Processed(p) == {f \in Files : f < idx[p]}

AppendedOnly(p) == {f \in Processed(p) : f \in appended[p] /\ f \notin deleted[p]}

C22_AppendThenDelete ==
    \A p \in Procs :
        /\ \A f \in Processed(p) :
              \/ f \in appended[p] /\ f \in deleted[p] /\ f \notin on_disk
              \/ f \notin appended[p] /\ f \notin deleted[p]
              \/ f \in appended[p] /\ f \notin deleted[p] /\ f \in on_disk
        /\ \A f \in appended[p] : archive[TarOf(p)][f] >= 1
        /\ not_transferred[p] >= Cardinality(AppendedOnly(p))

C22_Witness ==
    \E p \in Procs :
        /\ pc[p] = "returned"
        /\ 1 \in appended[p] /\ 1 \notin deleted[p] /\ 1 \in on_disk
        /\ 2 \in appended[p] /\ 2 \in deleted[p] /\ 2 \notin on_disk
        /\ archive[TarOf(p)][1] = 1

\* C22 as stated: an entry that has been dealt with is either both appended
\* and removed, or neither.
C22_AsStated ==
    \A p \in Procs : \A f \in Processed(p) :
        (f \in appended[p]) <=> (f \in deleted[p])

\* C23: the not-transferred count grows by one at a time, and only in two kinds
\* of step: one in which the invocation has in hand a candidate the policy
\* accepted (lock busy, append or delete failed), or the step in which the
\* policy raised, where no verdict on the candidate exists. A step in which the
\* policy rejects a candidate leaves the count alone; both counts are never
\* negative.
Counted(p) == not_transferred'[p] # not_transferred[p]

EligibleInHand(p) ==
    /\ pc[p] \in {"getlock", "release"}
    /\ PolicyAccepts(cand[p], group[p])

PolicyRaised(p) ==
    /\ pc[p] = "loop" /\ pc'[p] = "loop"
    /\ examined'[p] # examined[p]
    /\ rejected'[p] = rejected[p]
    /\ cand[p] = NoCand

C23_CountedWhenFailed ==
    [][\A p \in Procs :
          /\ Counted(p) =>
                /\ not_transferred'[p] = not_transferred[p] + 1
                /\ EligibleInHand(p) \/ PolicyRaised(p)
          /\ rejected'[p] # rejected[p] => ~Counted(p)
          /\ not_transferred'[p] >= 0
          /\ archived_file_count'[p] >= 0]_vars

C23_Witness ==
    \E p \in Procs :
        /\ pc[p] = "returned"
        /\ rejected[p] = {1}
        /\ examined[p][2] = 1 /\ 2 \notin obtained[p]
        /\ not_transferred[p] = 1
        /\ "Unable to transfer file" \in Msgs(p)

\* C23 as stated: the count grows only in a step in which the invocation has
\* in hand a candidate the policy accepted.
C23_AsStated ==
    [][\A p \in Procs : Counted(p) => EligibleInHand(p)]_vars

\* C24: within one run no entry is examined twice; the entries are taken in
\* the order of the traversal, so that every entry before the current one was
\* examined once or was not there to be produced, and no entry after it has
\* been examined; a step never goes back to an earlier entry, and the lock,
\* the append and the delete of a step are those of the current entry only.
PassedOver(p, f) ==
    /\ examined[p][f] = 0
    /\ f \notin on_disk
    /\ f \notin deleted[p]

C24_State(p) ==
    /\ \A f \in Files :
          /\ examined[p][f] <= 1
          /\ f < idx[p] => (examined[p][f] = 1 \/ PassedOver(p, f))
          /\ f > idx[p] => examined[p][f] = 0
    /\ obtained[p] \subseteq {f \in Files : examined[p][f] = 1}

C24_SinglePass ==
    [][\A p \in Procs :
          /\ idx'[p] >= idx[p]
          /\ \A f \in Files :
                f # idx[p] =>
                    /\ examined'[p][f] = examined[p][f]
                    /\ (f \in obtained'[p]) <=> (f \in obtained[p])
                    /\ (f \in appended'[p]) <=> (f \in appended[p])
                    /\ (f \in deleted'[p]) <=> (f \in deleted[p])
          /\ C24_State(p)']_vars

C24_Witness ==
    \E p \in Procs :
        /\ pc[p] = "returned"
        /\ examined[p][1] = 1 /\ examined[p][2] = 1
        /\ 1 \notin obtained[p] /\ 1 \notin rejected[p] /\ 1 \in on_disk
        /\ not_transferred[p] = 1
        /\ 2 \in deleted[p]

\* C25: (1) the step in which a file's lock is found busy leaves the file on
\* disk and the disk, the archives and the file locks as they are, and a file
\* leaves the disk only through the delete of the entry in hand, whose lock
\* the run obtained; so the file is there for the next run. (2) Under repeated
\* runs, if from some moment on no step of a run fails (every gate passes, the
\* logger and the archive open, the traversal and the policy do not raise, the
\* policy accepts the files it is asked about, every file lock is free, every
\* append and delete succeeds), then every file on disk is eventually in the
\* archive and off the disk, unless the bound on the archive's entries stops
\* the repetition first.
LockBusyStep(p) == pc[p] = "getlock" /\ pc'[p] = "loop"

FailedStep(p) ==
    \/ pc'[p] \in {"exited", "raised", "unrecoverable"} /\ pc'[p] # pc[p]
    \/ LockBusyStep(p)
    \/ exc'[p] /\ ~exc[p]
    \/ rejected'[p] # rejected[p] /\ pc'[p] # "start"
    \/ C21_Raised(p) /\ pc'[p] # "start"

NoFailedStep == \A p \in Procs : ~FailedStep(p)

Capped == \E t \in TarPaths : \E f \in Files : archive[t][f] >= MaxEntries

ArchivedAndDeleted(f) == f \notin on_disk /\ archive[TarOf(1)][f] >= 1

C25_LeftForNextRun ==
    /\ [][/\ \A p \in Procs :
                LockBusyStep(p) =>
                    /\ idx[p] \in on_disk'
                    /\ on_disk' = on_disk /\ archive' = archive /\ flock' = flock
          /\ \A f \in on_disk \ on_disk' :
                \E p \in Procs :
                    f = idx[p] /\ f \in obtained[p] /\ f \in appended[p]]_vars
    /\ (<>[][NoFailedStep]_vars) =>
          \A f \in Files : (f \in on_disk) ~> (ArchivedAndDeleted(f) \/ Capped)

\* A later run archives and deletes the file that an earlier run of the same
\* group left on disk: the archive holds one entry of it, which the current
\* run appended, and the other file was archived by an earlier run.
C25_Witness ==
    /\ pc[1] = "returned"
    /\ ~force_archive[1]
    /\ deleted[1] = {1}
    /\ archive[TarOf(1)][1] = 1
    /\ archive[TarOf(1)][2] = 1
    /\ 2 \notin appended[1]
    /\ on_disk = {}

\* C26: once the pipeline has returned, the log of the run holds the record
\* 'Some files were not transferred' (with the key not_transferred_count)
\* exactly when the not-transferred count is above 0, and the record 'No files
\* transferred to archive', of the run's archive, exactly when the archived
\* count is 0, each whatever the other; before the pipeline has returned, and
\* when it was left by an exception, the log holds neither.
MsgSomeNotTransferred ==
    "Some files were not transferred. Please fix problems, and rerun this script"

MsgNoneTransferred ==
    "No files transferred to archive. You may want to manually delete %s if it is empty"

PipelineReturned(p) == run_count[p] # -1

SummaryOf(p, msg) == {r \in log[p] : r.msg = msg}

C26_SummaryWarnings ==
    \A p \in Procs :
        /\ PipelineReturned(p) =>
              /\ (SummaryOf(p, MsgSomeNotTransferred) # {}) <=> (not_transferred[p] > 0)
              /\ (SummaryOf(p, MsgNoneTransferred) # {}) <=> (archived_file_count[p] = 0)
        /\ ~PipelineReturned(p) =>
              /\ SummaryOf(p, MsgSomeNotTransferred) = {}
              /\ SummaryOf(p, MsgNoneTransferred) = {}
        /\ \A r \in SummaryOf(p, MsgSomeNotTransferred) :
              r.extra.level = "ERROR" /\ r.extra.keys = {"not_transferred_count"}
        /\ \A r \in SummaryOf(p, MsgNoneTransferred) :
              r.extra.level = "ERROR" /\ r.extra.destination_tar = TarOf(p)

C26_Witness ==
    \E p \in Procs :
        /\ pc[p] = "returned"
        /\ not_transferred[p] = 2
        /\ archived_file_count[p] = 0
        /\ SummaryOf(p, MsgSomeNotTransferred) # {}
        /\ SummaryOf(p, MsgNoneTransferred) # {}

\* C27: every record _log builds, at every level and with whatever keys the
\* caller passes, carries the run's group name, its target directory and its
\* archive path next to the caller's keys and the level; so does every record
\* in the log of a run.
Levels == {"DEBUG", "INFO", "ERROR"}

CallerKeys == {"file_name", "error", "not_transferred_count"}

HasContext(p, extra) ==
    /\ extra.group = group_name[p]
    /\ extra.dirname = BaseDir
    /\ extra.destination_tar = get_tarfile_name(TARFILE_BASE, group_name[p]).val

AllSucceeded(p) == obtained[p] \cap appended[p] \cap deleted[p]

C28_State(p) ==
    /\ archived_file_count[p] = Cardinality(deleted[p])
    /\ deleted[p] = AllSucceeded(p)
    /\ PipelineReturned(p) => run_count[p] = Cardinality(AllSucceeded(p))

C28_CountIsDeleted ==
    [][\A p \in Procs :
          /\ archived_file_count'[p] # archived_file_count[p] =>
                /\ archived_file_count'[p] = archived_file_count[p] + 1
                /\ pc[p] = "delete"
                /\ idx[p] \in on_disk /\ idx[p] \notin on_disk'
                /\ deleted'[p] = deleted[p] \cup {idx[p]}
                /\ idx[p] \notin deleted[p]
          /\ C28_State(p)']_vars

C28_Witness ==
    \E p \in Procs :
        /\ pc[p] = "returned"
        /\ run_count[p] = 1
        /\ obtained[p] = Files /\ appended[p] = Files
        /\ deleted[p] = {2}

\* C29: an invocation whose acquire answers False is not forced, and at that
\* moment another invocation holds the lock file of its path. Two invocations built with the
\* same template have the same path exactly when they are for the same group,
\* provided the template has the placeholder: then only a run of the same
\* group makes the acquire fail. A template without the placeholder is the
\* path of every group, and runs of different groups exclude each other.
Keyed(base) == Cardinality(Placeholders(base)) = 1

C29_SameGroupOrShared(p, q) ==
    \/ group_name[q] = group_name[p]
    \/ ~Keyed(lockfile_base[p])
    \/ lockfile_base[q] # lockfile_base[p]

AnswersFalse(p) == pc[p] # "acquire_false" /\ pc'[p] = "acquire_false"

C29_KeyedByTemplate ==
    [][\A p \in Procs :
          /\ AnswersFalse(p) =>
                /\ ~force_archive[p]
                /\ \E q \in Procs \ {p} :
                      /\ q \in plock[LockPath(p)]
                      /\ LockPath(q) = LockPath(p)
                      /\ C29_SameGroupOrShared(p, q)
          /\ \A q \in Procs :
                (lockfile_base[q] = lockfile_base[p] /\ Keyed(lockfile_base[p])) =>
                    (LockPath(p) = LockPath(q) <=> group_name[p] = group_name[q])
          /\ ~Keyed(lockfile_base[p]) => LockPath(p) = lockfile_base[p]]_vars

C29_Witness ==
    \E p, q \in Procs :
        /\ group_name[p] = "staff" /\ group_name[q] = "devs"
        /\ lockfile_base[p] = <<"foo-", "%s", "-bar.lock">>
        /\ lockfile_base[q] = lockfile_base[p]
        /\ pc[p] = "acquire_true" /\ pc[q] = "acquire_true"
        /\ plock[LockPath(p)] = {p} /\ plock[LockPath(q)] = {q}

\* C29 as stated: whatever the template, an acquire answers False only when a
\* run for the same group holds the lock.
C29_AsStated ==
    [][\A p \in Procs :
          AnswersFalse(p) =>
              \E q \in Procs \ {p} :
                  q \in plock[LockPath(p)] /\ group_name[q] = group_name[p]]_vars

\* C30: each of the three path-name methods returns, and what it returns is
\* the template with the group name in the place of the placeholder when the
\* template has one placeholder, and the template itself when it has none.
Substituted(base, name) ==
    [i \in DOMAIN base |-> IF base[i] = "%s" THEN name ELSE base[i]]

C30_AsStated ==
    path_out # <<>> =>
        LET base == path_args.base
            out == path_out[1]
        IN  /\ ~out.raised
            /\ Cardinality(Placeholders(base)) = 1 =>
                  out.val = Substituted(base, path_args.name)
            /\ Placeholders(base) = {} => out.val = base

\* C31: in non-forced mode every way run() can end after the process lock was
\* acquired, a failure of the 'Beginning archive' log call included, has
\* released the lock: the handle is not held and the lock file is free of the
\* invocation.
HoldsProcessLock(p) == lock[p] = "acquired" /\ p \in plock[LockPath(p)]

C31_AsStated ==
    \A p \in Procs :
        (pc[p] \in Ended /\ ~force_archive[p]) => ~HoldsProcessLock(p)

\* C32: a forced run never acquires, releases or otherwise changes the
\* process lock of its group: it has no handle, it is in no lock file, and no
\* step of it changes a lock file; so a run that holds the lock still holds it
\* after the steps of a forced run, and a further run without --force that
\* comes to the lock gate while the lock is held fails there. The forced run
\* and the holder can nevertheless archive the same file.
Moves(p) == pc'[p] # pc[p] \/ idx'[p] # idx[p]

LockGateStep(p) == pc[p] = "acquire" /\ pc'[p] # "acquire"

C32_ForcedLeavesLock ==
    [][\A p \in Procs :
          /\ force_archive[p] =>
                /\ lock[p] = "None"
                /\ plock_releases[p] = 0
                /\ \A path \in LockPaths : p \notin plock[path]
          /\ (force_archive[p] /\ Moves(p)) =>
                /\ plock' = plock
                /\ \A q \in Procs \ {p} : lock'[q] = lock[q]
          /\ (~force_archive[p] /\ LockGateStep(p)) =>
                \A q \in Procs \ {p} :
                    (HoldsProcessLock(q) /\ LockPath(q) = LockPath(p)) =>
                        /\ pc'[p] = "exited"
                        /\ exit_msg'[p] = MsgLockContention
                        /\ HoldsProcessLock(q)']_vars

\* A run holds the lock, a forced run for the same group has come and gone,
\* the run that followed it without --force has failed the lock gate, and a
\* file archived by the holder is in the archive twice.
C32_Witness ==
    \E p \in Procs : \E q \in Procs \ {p} :
        /\ ~force_archive[p]
        /\ pc[p] = "exited"
        /\ exit_msg[p] = MsgLockContention
        /\ ~force_archive[q]
        /\ HoldsProcessLock(q)
        /\ \E f \in appended[q] : archive[TarOf(q)][f] = 2

\* C33: the pipeline never appends to the archive, and never deletes, the
\* invocation's own destination archive, process lock file or log file, even
\* when they lie under base_dir and the policy accepts them.
OwnPaths(p) ==
    {get_tarfile_name(TARFILE_BASE, group_name[p]).val,
     get_lockfile_name(lockfile_base[p], group_name[p]).val,
     get_logfile_name(LOGFILE_BASE, group_name[p]).val}

C33_AsStated ==
    \A p \in Procs :
        \A f \in appended[p] \cup deleted[p] : entry_path[f] \notin OwnPaths(p)

\* C34: each candidate adds at most one to the two counters together: a step
\* adds one to one of them or nothing, a candidate that was counted as archived
\* is not counted as not transferred when its lock is released, and the sum of
\* the counters never exceeds the number of candidates examined so far.
ExaminedSoFar(p) == Cardinality({f \in Files : examined[p][f] >= 1})

BothCounters(p) == archived_file_count[p] + not_transferred[p]

C34_OneCountPerCandidate ==
    [][\A p \in Procs :
          /\ BothCounters(p) <= ExaminedSoFar(p)
          /\ BothCounters(p)' <= ExaminedSoFar(p)'
          /\ BothCounters(p)' \in {BothCounters(p), BothCounters(p) + 1}
          /\ (pc[p] = "release" /\ idx[p] \in deleted[p]) =>
                not_transferred'[p] = not_transferred[p]]_vars

\* A run has returned with one candidate counted as archived and another as
\* not transferred.
C34_Witness ==
    \E p \in Procs :
        /\ pc[p] = "returned"
        /\ archived_file_count[p] = 1
        /\ not_transferred[p] = 1
        /\ ExaminedSoFar(p) = 2

\* C35: every run() ends, and it ends either at a fatal gate, by the SystemExit
\* that carries the gate's message, or by returning after the outcome report.
EndedAtGate(p) ==
    /\ pc[p] = "exited"
    /\ gates[p] # <<>>
    /\ exit_msg[p] = GateMsg(gates[p][Len(gates[p])])

EndedAfterReport(p) ==
    /\ pc[p] = "returned"
    /\ Msgs(p) \cap OutcomeMsgs # {}

C35_AsStated ==
    \A p \in Procs : pc[p] \in Ended => (EndedAtGate(p) \/ EndedAfterReport(p))

====
